---- MODULE Spec2Model ----
(***************************************************************************)
(* A model of kibana-importer.py: the readiness probe, the index remapper, *)
(* the concurrent batch uploader and the entry point that wires them.      *)
(*                                                                         *)
(* Strings that the program edits or parses (searchSourceJSON, index ids)  *)
(* are sequences of one-character tokens.  The embedded JSON is written in *)
(* a small token grammar:                                                  *)
(*     "{"  "}"    the braces of a JSON object                             *)
(*     "k"         the member key  "index":                                *)
(*     "q"         another member key (query, filter, ...)                 *)
(*     "a" "b" "c" the characters of a quoted string value (an index id)   *)
(* so <<"{","k","a","q","a","}">> stands for {"index":"a","query":"a"}.    *)
(***************************************************************************)
EXTENDS Integers, Sequences, FiniteSets, TLC

\* ------------------------------------------------------------------ bounds
MaxRecs == 2
MaxRetries == 1
Workers == 2

\* ------------------------------------------------------------------ strings
EmptyStr == <<>>
IdChars == {"a", "b", "c"}
Keys == {"k", "q"}
IndexKey == "k"

\* Variant: str.replace(old, new, 1), which replaces the first occurrence only.
RECURSIVE StrReplaceFirst(_, _, _)
StrReplaceFirst(s, old, new) ==
  IF Len(old) = 0 THEN new \o s
  ELSE IF Len(s) < Len(old) THEN s
  ELSE IF SubSeq(s, 1, Len(old)) = old
    THEN new \o SubSeq(s, Len(old) + 1, Len(s))
  ELSE <<Head(s)>> \o StrReplaceFirst(Tail(s), old, new)

\* str.replace(old, new): left-to-right, non-overlapping, every occurrence.
RECURSIVE StrReplace(_, _, _)
StrReplace(s, old, new) ==
  IF Len(old) = 0
    THEN IF Len(s) = 0 THEN new
         ELSE new \o <<Head(s)>> \o StrReplace(Tail(s), old, new)
  ELSE IF Len(s) < Len(old) THEN s
  ELSE IF SubSeq(s, 1, Len(old)) = old
    THEN new \o StrReplace(SubSeq(s, Len(old) + 1, Len(s)), old, new)
  ELSE <<Head(s)>> \o StrReplace(Tail(s), old, new)

\* The longest prefix of s made of string-value characters.
RECURSIVE ValuePrefix(_)
ValuePrefix(s) ==
  IF Len(s) = 0 \/ Head(s) \notin IdChars THEN <<>>
  ELSE <<Head(s)>> \o ValuePrefix(Tail(s))

ParseError == [ok |-> FALSE, obj |-> [x \in {} |-> <<>>]]

\* The members of an object, after its opening brace; a repeated key keeps
\* its last value, text after the closing brace is an error.
RECURSIVE ParseMembers(_, _)
ParseMembers(s, acc) ==
  IF Len(s) = 0 THEN ParseError
  ELSE IF Head(s) = "}"
    THEN IF Len(s) = 1 THEN [ok |-> TRUE, obj |-> acc] ELSE ParseError
  ELSE IF Head(s) \in Keys
    THEN LET v == ValuePrefix(Tail(s))
         IN  ParseMembers(SubSeq(s, Len(v) + 2, Len(s)), (Head(s) :> v) @@ acc)
  ELSE ParseError

\* json.loads on a string of the token grammar.
JsonLoads(s) ==
  IF Len(s) = 0 \/ Head(s) # "{" THEN ParseError
  ELSE ParseMembers(Tail(s), [x \in {} |-> <<>>])

\* ------------------------------------------------------------------ records
\* One entry of the export array.  src_kind says what the path
\* _source.kibanaSavedObjectMeta.searchSourceJSON resolves to: nothing
\* ("absent"), a value that is no string ("nonstr"), or the string ssj.
Rec(typ, id, kind, s) ==
  [type |-> typ, id |-> id,
   source |-> [title |-> id, src_kind |-> kind, ssj |-> s]]

SampleRecords ==
  { Rec("dashboard", "d1", "absent", <<>>),
    Rec("search", "s2", "str", <<"{", "k", "a", "b", "q", "a", "b", "b", "}">>),
    Rec("visualization", "v1", "str", <<"{", "k", "b", "}">>),
    Rec("search", "s2", "str", <<"{", "q", "a", "b">>),
    Rec("visualization", "v2", "nonstr", <<>>),
    Rec("index-pattern", "p1", "str", <<"{", "k", "c", "}">>),
    Rec("config", "c1", "str", <<"{", "q", "b", "}">>) }

\* The arrays json.load can hand to main: every sequence of sample records
\* of length at most MaxRecs.
RECURSIVE SeqsUpTo(_, _)
SeqsUpTo(S, n) ==
  IF n = 0 THEN {<<>>}
  ELSE LET shorter == SeqsUpTo(S, n - 1)
       IN  shorter \cup {Append(q, x) : q \in {r \in shorter : Len(r) = n - 1}, x \in S}

InputArrays == SeqsUpTo(SampleRecords, MaxRecs)

\* What GET /api/kibana/settings can yield as settings.defaultIndex.userValue.
NewIds == {<<"a", "a">>}

\* The ways get_default_index's try block can end: the value is read, or one
\* of its statements raises (network error, error status, missing field).
SettingsResponses ==
  {[ok |-> TRUE, value |-> v, why |-> "value"] : v \in NewIds}
    \cup {[ok |-> FALSE, value |-> EmptyStr, why |-> w] : w \in {"connerr", "httperr", "nofield"}}

EligibleTypes == {"dashboard", "search", "visualization"}

\* The target before the import, and what a POST to
\* /api/saved_objects/{type}/{id}?overwrite=true that is answered with success
\* does to it: the object of that type and id is created or replaced by the
\* attributes of the body.
NoObjects == [k \in {} |-> <<>>]
\* Variant: the target keeps one object per type, whatever its id.
UpsertByType(objects, req) ==
  (<<req.url.path[3], req.url.path[3]>> :> req.body[1].attributes) @@ objects

Upsert(objects, req) ==
  (<<req.url.path[3], req.url.path[4]>> :> req.body[1].attributes) @@ objects

\* ------------------------------------------------------------------ remapper
\* The body of the try block of get_old_default_index for one record:
\* found is TRUE when no step of the expression raises.  Member values of
\* the token grammar are strings, on which str() changes nothing.
OldIndexOf(obj) ==
  IF obj.source.src_kind # "str" THEN [found |-> FALSE, value |-> EmptyStr]
  ELSE LET p == JsonLoads(obj.source.ssj)
       IN  IF p.ok /\ IndexKey \in DOMAIN p.obj
             THEN [found |-> TRUE, value |-> p.obj[IndexKey]]
             ELSE [found |-> FALSE, value |-> EmptyStr]

\* Variant: the except clause returns "" instead of passing on to the next record.
get_old_default_index_stop(objs, i) ==
  IF i > Len(objs) THEN EmptyStr
  ELSE IF OldIndexOf(objs[i]).found THEN OldIndexOf(objs[i]).value
  ELSE EmptyStr

RECURSIVE get_old_default_index_from(_, _)
get_old_default_index_from(objs, i) ==
  IF i > Len(objs) THEN EmptyStr
  ELSE IF OldIndexOf(objs[i]).found THEN OldIndexOf(objs[i]).value
  ELSE get_old_default_index_from(objs, i + 1)

get_old_default_index(objs) == get_old_default_index_from(objs, 1)

\* Variant: a missing or non-string searchSourceJSON is read as "" and written back.
replace_id_default(obj, old, new) ==
  IF obj.source.src_kind = "str"
    THEN [obj EXCEPT !.source.ssj = StrReplace(@, old, new)]
    ELSE [obj EXCEPT !.source.src_kind = "str", !.source.ssj = StrReplace(<<>>, old, new)]

replace_id(obj, old, new) ==
  IF obj.source.src_kind = "str"
    THEN [obj EXCEPT !.source.ssj = StrReplace(@, old, new)]
    ELSE obj

\* The condition of line 133, which tests oldidx twice and newidx never.
RemapCondition(old, new) == old # EmptyStr /\ old # EmptyStr

\* ------------------------------------------------------------------ state
VARIABLES
  jsonArray,   \* the export array, rewritten in place by replace_id
  input,       \* the array as json.load returned it (history)
  wait,        \* args.wait
  fix_idx,     \* args.fix_idx
  pc,          \* the line main stands at
  polls,       \* GET /api/status requests issued by wait_for_green_status
  statuses,    \* the outcomes of those polls, in order (history)
  settings,    \* how the settings query ended: "none" (not made), "value", "failed"
  newidx,      \* main's newidx
  oldidx,      \* main's oldidx
  remapped,    \* records the list comprehension of line 134 has passed through replace_id
  ri,          \* position of that list comprehension
  di,          \* position of the for loop of upload_kibana_saved_json
  futures,     \* the futures list: one request per run_in_executor call
  ignored,     \* positions reported as 'Ignoring unknown Kibana export type'
  poolSize,    \* threads of the default executor
  store,       \* the saved objects of the target, by <<type, id>>
  upload,      \* upload_kibana_saved_json: "notcalled", "running", "returned", "raised"
  mainResult,  \* main: "running", "returned", "raised"
  exitCode     \* the exit status of the process, -1 while it runs

vars == <<jsonArray, input, wait, fix_idx, pc, polls, statuses, settings, newidx, oldidx,
          remapped, ri, di, futures, ignored, poolSize, store, upload, mainResult, exitCode>>

flagVars == <<wait, fix_idx, input, poolSize>>
probeVars == <<polls, statuses>>
remapVars == <<jsonArray, settings, newidx, oldidx, remapped, ri>>
uploadVars == <<di, futures, ignored, store, upload>>

Init ==
  /\ jsonArray \in InputArrays
  /\ input = jsonArray
  /\ wait \in BOOLEAN
  /\ fix_idx \in BOOLEAN
  /\ pc = "l126"
  /\ polls = 0
  /\ statuses = <<>>
  /\ settings = "none"
  /\ newidx = EmptyStr
  /\ oldidx = EmptyStr
  /\ remapped = {}
  /\ ri = 1
  /\ di = 1
  /\ futures = <<>>
  /\ ignored = {}
  /\ poolSize \in 1..Workers
  /\ store = NoObjects
  /\ upload = "notcalled"
  /\ mainResult = "running"
  /\ exitCode = -1

\* ------------------------------------------------------------------ main, readiness
\* main, line 126: if args.wait.
MainWait ==
  /\ pc = "l126"
  /\ pc' = IF wait THEN "wait" ELSE "l129"
  /\ UNCHANGED <<flagVars, probeVars, remapVars, uploadVars, mainResult, exitCode>>

\* What one GET /api/status can come to.
PollOutcomes == {"connerr", "httperr", "badbody", "yellow", "green"}

\* Variant: the loop breaks on any state it could read, green or not.
wait_for_any_status(out) ==
  /\ pc = "wait"
  /\ out \in {"connerr", "yellow"} => polls < MaxRetries
  /\ polls' = polls + 1
  /\ statuses' = Append(statuses, out)
  /\ pc' = CASE out \in {"green", "yellow"} -> "l129"
             [] out \in {"httperr", "badbody"} -> "end"
             [] OTHER -> "wait"
  /\ mainResult' = IF out \in {"httperr", "badbody"} THEN "raised" ELSE mainResult
  /\ UNCHANGED <<flagVars, remapVars, uploadVars, exitCode>>

\* Variant: the except clause gives up (break) instead of retrying.
wait_for_green_status_give_up(out) ==
  /\ pc = "wait"
  /\ out \in {"connerr", "yellow"} => polls < MaxRetries
  /\ polls' = polls + 1
  /\ statuses' = Append(statuses, out)
  /\ pc' = CASE out \in {"green", "connerr"} -> "l129"
             [] out \in {"httperr", "badbody"} -> "end"
             [] OTHER -> "wait"
  /\ mainResult' = IF out \in {"httperr", "badbody"} THEN "raised" ELSE mainResult
  /\ UNCHANGED <<flagVars, remapVars, uploadVars, exitCode>>

\* One turn of the while loop of wait_for_green_status.
\*   connerr  s.get raises requests.exceptions.ConnectionError: caught, retry
\*   httperr  raise_for_status raises HTTPError: not caught by the except clause
\*   badbody  r.json() or the subscripts raise (ValueError, KeyError): not caught
\*   yellow   the state is read and is not green: retry
\*   green    break
wait_for_green_status(out) ==
  /\ pc = "wait"
  /\ out \in {"connerr", "yellow"} => polls < MaxRetries
  /\ polls' = polls + 1
  /\ statuses' = Append(statuses, out)
  /\ pc' = CASE out = "green" -> "l129"
             [] out \in {"httperr", "badbody"} -> "end"
             [] OTHER -> "wait"
  /\ mainResult' = IF out \in {"httperr", "badbody"} THEN "raised" ELSE mainResult
  /\ UNCHANGED <<flagVars, remapVars, uploadVars, exitCode>>

\* main, line 129: without --fix-idx the whole block, the upload of line 138
\* included, is skipped and main returns.
MainFixIdx ==
  /\ pc = "l129"
  /\ pc' = IF fix_idx THEN "l130" ELSE "end"
  /\ mainResult' = IF fix_idx THEN mainResult ELSE "returned"
  /\ UNCHANGED <<flagVars, probeVars, remapVars, uploadVars, exitCode>>

\* ------------------------------------------------------------------ main, remap
\* Variant: without the try block a failed query ends main with the exception.
get_default_index_raise(resp) ==
  /\ pc = "l130"
  /\ newidx' = IF resp.ok THEN resp.value ELSE newidx
  /\ settings' = IF resp.ok THEN "value" ELSE "failed"
  /\ pc' = IF resp.ok THEN "l131" ELSE "end"
  /\ mainResult' = IF resp.ok THEN mainResult ELSE "raised"
  /\ UNCHANGED <<flagVars, probeVars, jsonArray, oldidx, remapped, ri, uploadVars, exitCode>>

\* get_default_index: the value of the settings, or "" on any exception.
get_default_index(resp) ==
  /\ pc = "l130"
  /\ newidx' = IF resp.ok THEN resp.value ELSE EmptyStr
  /\ settings' = IF resp.ok THEN "value" ELSE "failed"
  /\ pc' = "l131"
  /\ UNCHANGED <<flagVars, probeVars, jsonArray, oldidx, remapped, ri, uploadVars,
                 mainResult, exitCode>>

\* main, line 131.
MainOldIdx ==
  /\ pc = "l131"
  /\ oldidx' = get_old_default_index(jsonArray)
  /\ pc' = "l133"
  /\ UNCHANGED <<flagVars, probeVars, jsonArray, settings, newidx, remapped, ri, uploadVars,
                 mainResult, exitCode>>

\* main, line 133: remap, or print 'Did not find old index' and go on.
MainRemapTest ==
  /\ pc = "l133"
  /\ pc' = IF RemapCondition(oldidx, newidx) THEN "l134" ELSE "l138"
  /\ UNCHANGED <<flagVars, probeVars, remapVars, uploadVars, mainResult, exitCode>>

\* main, line 134: one element of the list comprehension; replace_id rewrites
\* the record in place and returns it.
MainReplace ==
  /\ pc = "l134"
  /\ ri <= Len(jsonArray)
  /\ jsonArray' = [jsonArray EXCEPT ![ri] = replace_id(@, oldidx, newidx)]
  /\ remapped' = remapped \cup {ri}
  /\ ri' = ri + 1
  /\ UNCHANGED <<flagVars, probeVars, settings, newidx, oldidx, pc, uploadVars, mainResult, exitCode>>

\* Variant: the comprehension is left one record short.
MainReplaceDone_early ==
  /\ pc = "l134"
  /\ ri >= Len(jsonArray)
  /\ pc' = "l138"
  /\ UNCHANGED <<flagVars, probeVars, remapVars, uploadVars, mainResult, exitCode>>

MainReplaceDone ==
  /\ pc = "l134"
  /\ ri > Len(jsonArray)
  /\ pc' = "l138"
  /\ UNCHANGED <<flagVars, probeVars, remapVars, uploadVars, mainResult, exitCode>>

\* main, line 138: run_until_complete(upload_kibana_saved_json(...)).
MainUpload ==
  /\ pc = "l138"
  /\ upload' = "running"
  /\ pc' = "l78"
  /\ UNCHANGED <<flagVars, probeVars, remapVars, di, futures, ignored, store, mainResult, exitCode>>

\* ------------------------------------------------------------------ uploader
Url(typ, id) == [path |-> <<"api", "saved_objects", typ, id>>, overwrite |-> TRUE]

\* Variant: the call is bound late, so every request reads the loop's last record.
NewRequestLateBound(i, obj) ==
  [rec |-> i,
   url |-> Url(jsonArray[Len(jsonArray)].type, jsonArray[Len(jsonArray)].id),
   xsrf |-> "anything", data |-> Len(jsonArray), body |-> <<>>, st |-> "queued"]

\* Lines 85-97 for the record at position i: the URL is formatted now, data
\* holds a reference to the record's _source, which the session serialises
\* when the executor runs the call (body, empty until then).
NewRequest(i, obj) ==
  [rec |-> i, url |-> Url(obj.type, obj.id), xsrf |-> "anything",
   data |-> i, body |-> <<>>, st |-> "queued"]

\* Variant: an unknown type ends the loop (break) instead of skipping the record.
upload_dispatch_break ==
  /\ pc = "l78"
  /\ di <= Len(jsonArray)
  /\ IF jsonArray[di].type \notin EligibleTypes
       THEN /\ ignored' = ignored \cup {di}
            /\ di' = Len(jsonArray) + 1
            /\ UNCHANGED futures
       ELSE /\ futures' = Append(futures, NewRequest(di, jsonArray[di]))
            /\ di' = di + 1
            /\ UNCHANGED ignored
  /\ UNCHANGED <<flagVars, probeVars, remapVars, pc, store, upload, mainResult, exitCode>>

\* One turn of the for loop of lines 78-98.
upload_dispatch ==
  /\ pc = "l78"
  /\ di <= Len(jsonArray)
  /\ IF jsonArray[di].type \notin EligibleTypes
       THEN /\ ignored' = ignored \cup {di}
            /\ UNCHANGED futures
       ELSE /\ futures' = Append(futures, NewRequest(di, jsonArray[di]))
            /\ UNCHANGED ignored
  /\ di' = di + 1
  /\ UNCHANGED <<flagVars, probeVars, remapVars, pc, store, upload, mainResult, exitCode>>

\* Variant: the loop stops one record short.
upload_dispatch_done_early ==
  /\ pc = "l78"
  /\ di >= Len(jsonArray)
  /\ pc' = "l100"
  /\ UNCHANGED <<flagVars, probeVars, remapVars, uploadVars, mainResult, exitCode>>

upload_dispatch_done ==
  /\ pc = "l78"
  /\ di > Len(jsonArray)
  /\ pc' = "l100"
  /\ UNCHANGED <<flagVars, probeVars, remapVars, uploadVars, mainResult, exitCode>>

InState(st) == {f \in DOMAIN futures : futures[f].st = st}
InFlight == InState("queued") \cup InState("running")

\* Variant: a call submitted while every thread is taken is never run.
worker_start_dropping ==
  /\ \E g \in InState("queued") : g <= poolSize
  /\ Cardinality(InState("running")) < poolSize
  /\ LET f == CHOOSE g \in InState("queued") : g <= poolSize
     IN  futures' = [futures EXCEPT
                       ![f].st = "running",
                       ![f].body = <<[attributes |-> jsonArray[futures[f].data].source]>>]
  /\ UNCHANGED <<flagVars, probeVars, remapVars, pc, di, ignored, store, upload, mainResult, exitCode>>

\* A thread of the default executor takes the oldest queued call and starts
\* s.post, which serialises json=data.
worker_start ==
  /\ InState("queued") # {}
  /\ Cardinality(InState("running")) < poolSize
  /\ LET f == CHOOSE g \in InState("queued") : \A h \in InState("queued") : g <= h
     IN  futures' = [futures EXCEPT
                       ![f].st = "running",
                       ![f].body = <<[attributes |-> jsonArray[futures[f].data].source]>>]
  /\ UNCHANGED <<flagVars, probeVars, remapVars, pc, di, ignored, store, upload, mainResult, exitCode>>

\* s.post ends: a response with a success status ("ok"), a response with an
\* error status ("bad"), or an exception of the transport ("exc").
PostOutcomes == {"ok", "bad", "exc"}

\* Variant: a failed call is put back in the queue to be tried again.
worker_finish_retry(f, out) ==
  /\ f \in InState("running")
  /\ futures' = [futures EXCEPT ![f].st = IF out = "ok" THEN "ok" ELSE "queued"]
  /\ store' = IF out = "ok" THEN Upsert(store, futures[f]) ELSE store
  /\ UNCHANGED <<flagVars, probeVars, remapVars, pc, di, ignored, upload, mainResult, exitCode>>

worker_finish(f, out) ==
  /\ f \in InState("running")
  /\ futures' = [futures EXCEPT ![f].st = out]
  /\ store' = IF out = "ok" THEN Upsert(store, futures[f]) ELSE store
  /\ UNCHANGED <<flagVars, probeVars, remapVars, pc, di, ignored, upload, mainResult, exitCode>>

\* Line 100: asyncio.gather without return_exceptions hands the first
\* exception of a future to the awaiting coroutine as soon as it is set; the
\* other futures are left running.
upload_gather_raise ==
  /\ pc = "l100"
  /\ InState("exc") # {}
  /\ upload' = "raised"
  /\ mainResult' = "raised"
  /\ pc' = "end"
  /\ UNCHANGED <<flagVars, probeVars, remapVars, di, futures, ignored, store, exitCode>>

\* Lines 100-101: every future has a response; raise_for_status on each.
upload_gather_return ==
  /\ pc = "l100"
  /\ InFlight = {}
  /\ InState("exc") = {}
  /\ upload' = IF InState("bad") # {} THEN "raised" ELSE "returned"
  /\ mainResult' = upload'
  /\ pc' = "end"
  /\ UNCHANGED <<flagVars, probeVars, remapVars, di, futures, ignored, store, exitCode>>

\* The interpreter ends: it joins the executor's threads, and the exit status
\* is 1 after an uncaught exception, 0 otherwise.
Exit ==
  /\ pc = "end"
  /\ InFlight = {}
  /\ exitCode' = IF mainResult = "raised" THEN 1 ELSE 0
  /\ pc' = "exited"
  /\ UNCHANGED <<flagVars, probeVars, remapVars, uploadVars, mainResult>>

Next ==
  \/ MainWait
  \/ \E out \in PollOutcomes : wait_for_green_status(out)
  \/ MainFixIdx
  \/ \E resp \in SettingsResponses : get_default_index(resp)
  \/ MainOldIdx
  \/ MainRemapTest
  \/ MainReplace
  \/ MainReplaceDone
  \/ MainUpload
  \/ upload_dispatch
  \/ upload_dispatch_done
  \/ worker_start
  \/ \E f \in DOMAIN futures, out \in PostOutcomes : worker_finish(f, out)
  \/ upload_gather_raise
  \/ upload_gather_return
  \/ Exit

Spec == Init /\ [][Next]_vars

\* The steps of the main thread (main and the coroutine it runs to completion).
MainStep ==
  \/ MainWait
  \/ MainFixIdx
  \/ \E resp \in SettingsResponses : get_default_index(resp)
  \/ MainOldIdx
  \/ MainRemapTest
  \/ MainReplace
  \/ MainReplaceDone
  \/ MainUpload
  \/ upload_dispatch
  \/ upload_dispatch_done
  \/ upload_gather_raise
  \/ upload_gather_return
  \/ Exit

Poll == \E out \in PollOutcomes : wait_for_green_status(out)
Finish(f) == \E out \in PostOutcomes : worker_finish(f, out)

\* The main thread keeps running, every GET /api/status comes to an end, an
\* idle executor thread takes the next queued call, and every s.post that
\* was started returns or raises.
FairSpec ==
  /\ Spec
  /\ WF_vars(MainStep)
  /\ WF_vars(Poll)
  /\ WF_vars(worker_start)
  /\ \A f \in 1..MaxRecs : WF_vars(Finish(f))

\* ------------------------------------------------------------------ claims
Eligible == {i \in 1..Len(jsonArray) : jsonArray[i].type \in EligibleTypes}
RequestsFor(i) == {f \in DOMAIN futures : futures[f].rec = i}
Failed == InState("bad") \cup InState("exc")
UploadEnded == upload \in {"returned", "raised"}
LoopEnded == pc \in {"l100", "end", "exited"} /\ upload # "notcalled"
ProbeRaised == upload = "notcalled" /\ mainResult = "raised"
ProbeReturned == wait /\ pc \notin {"l126", "wait"} /\ ~ProbeRaised

\* C1: when upload_kibana_saved_json has ended and no request failed, it has
\* returned without error, it issued exactly one request per eligible record
\* (N requests for N eligible records) and every one of them succeeded.
C1_AllSucceed ==
  (UploadEnded /\ Failed = {}) =>
    /\ upload = "returned"
    /\ Len(futures) = Cardinality(Eligible)
    /\ \A i \in Eligible : Cardinality(RequestsFor(i)) = 1
    /\ \A f \in DOMAIN futures : futures[f].st = "ok"

C1_Witness ==
  /\ upload = "returned"
  /\ Cardinality(Eligible) = 2
  /\ Len(futures) = 2
  /\ Failed = {}

\* C2: once the process has exited, its exit status is non-zero exactly when
\* at least one upsert request failed (error status or transport error).
C2_ExitStatus ==
  pc = "exited" => (exitCode # 0 <=> Failed # {})

\* The half of C2 that the uploader decides: a failed request, whatever its
\* position and whatever the other requests did, makes the process exit 1.
C2_FailureExitsNonZero ==
  (pc = "exited" /\ Failed # {}) => (upload = "raised" /\ exitCode = 1)

\* C3: a record of an unrecognized type never gets a request and is reported
\* instead; it does not end the loop: once the loop is over every position has
\* been visited and every eligible record, before or after it, has exactly one
\* request, which has been sent by the time the process exits.
C3_IneligibleSkipped ==
  /\ \A f \in DOMAIN futures : futures[f].rec \in Eligible
  /\ \A i \in 1..Len(jsonArray) :
       (upload # "notcalled" /\ i < di) =>
         IF i \in Eligible THEN Cardinality(RequestsFor(i)) = 1
         ELSE i \in ignored /\ RequestsFor(i) = {}
  /\ LoopEnded => di = Len(jsonArray) + 1
  /\ (pc = "exited" /\ upload # "notcalled") =>
       \A i \in Eligible : \A f \in RequestsFor(i) : futures[f].st \in PostOutcomes

C3_Witness ==
  /\ pc = "exited"
  /\ Len(jsonArray) = 2
  /\ 1 \notin Eligible
  /\ 2 \in Eligible
  /\ ignored = {1}
  /\ \E f \in RequestsFor(2) : futures[f].st = "ok"

\* C4: upload_kibana_saved_json has returned or raised only when none of the
\* requests it dispatched is still queued or running.
C4_JoinsAll ==
  UploadEnded => InFlight = {}

\* C5: whatever the two toggles are, when main returns the batch upload has
\* run and has dispatched one request per eligible record.
C5_TogglesIndependent ==
  (pc = "exited" /\ mainResult = "returned") =>
    /\ upload = "returned"
    /\ Len(futures) = Cardinality(Eligible)

\* C6: when the upload is reached with the old or the new index id empty, no
\* record has been rewritten: the array uploaded is the array that was read.
C6_SkipWhenEitherAbsent ==
  (upload # "notcalled" /\ (oldidx = EmptyStr \/ newidx = EmptyStr)) =>
    jsonArray = input

\* C7: wait_for_green_status never raises, whatever the polls come to, and it
\* returns only after a poll that reported green.
C7_NeverRaises ==
  /\ ~ProbeRaised
  /\ ProbeReturned => statuses[Len(statuses)] = "green"

\* C8: the probe has returned only if its last poll, and no earlier one,
\* reported green; with k non-green states reported before it, at least k + 1
\* polls were issued.
NonGreen == {i \in DOMAIN statuses : statuses[i] = "yellow"}

C8_ReturnsOnGreen ==
  /\ polls = Len(statuses)
  /\ ProbeReturned =>
       /\ polls >= 1
       /\ statuses[polls] = "green"
       /\ \A i \in 1..(polls - 1) : statuses[i] # "green"
       /\ polls >= Cardinality(NonGreen) + 1

C8_Witness ==
  /\ ProbeReturned
  /\ Cardinality(NonGreen) >= 1
  /\ statuses[1] = "yellow"
  /\ polls >= 2

\* C9: every request carries the path of the record at its own position
\* (that record's type and id, overwrite=true), was created for an eligible
\* record, and once sent its body is {"attributes": S} with S the _source of
\* that same record as the remap phase left it.
C9_RequestOfOwnRecord ==
  \A f \in DOMAIN futures :
    LET i == futures[f].rec
    IN  /\ i \in Eligible
        /\ futures[f].url = [path |-> <<"api", "saved_objects", input[i].type, input[i].id>>,
                             overwrite |-> TRUE]
        /\ futures[f].st # "queued" =>
             futures[f].body = <<[attributes |-> jsonArray[i].source]>>
        /\ jsonArray[i].source =
             IF i \in remapped THEN replace_id(input[i], oldidx, newidx).source
             ELSE input[i].source

C9_Witness ==
  /\ Len(futures) = 2
  /\ futures[1].url # futures[2].url
  /\ futures[2].st = "ok"
  /\ futures[1].st = "ok"
  /\ futures[1].body # futures[2].body
  /\ jsonArray # input

\* C10: when get_old_default_index has returned (main is at line 133), its
\* result is the index value of the first record, in input order, whose
\* searchSourceJSON parses and has an index member; records before it that
\* yield none are passed over; the result is empty if no record yields one.
Yielding == {i \in 1..Len(input) : OldIndexOf(input[i]).found}

C10_FirstMatch ==
  pc = "l133" =>
    /\ \A i \in Yielding :
         /\ input[i].source.src_kind = "str"
         /\ Head(input[i].source.ssj) = "{"
         /\ input[i].source.ssj[Len(input[i].source.ssj)] = "}"
         /\ \E j \in 1..Len(input[i].source.ssj) : input[i].source.ssj[j] = IndexKey
    /\ IF Yielding = {} THEN oldidx = EmptyStr
       ELSE LET first == CHOOSE i \in Yielding : \A j \in Yielding : i <= j
            IN  oldidx = JsonLoads(input[first].source.ssj).obj[IndexKey]

C10_Witness ==
  /\ pc = "l133"
  /\ Len(input) = 2
  /\ Yielding = {2}
  /\ input[1].source.src_kind = "str"
  /\ oldidx = <<"b">>

\* t occurs in s at position j; t occurs in s somewhere (t not empty).
OccursAt(s, t, j) == j + Len(t) - 1 <= Len(s) /\ SubSeq(s, j, j + Len(t) - 1) = t
Contains(s, t) == \E j \in 1..Len(s) : OccursAt(s, t, j)

\* The occurrences of old in s that a left-to-right scan replaces: they do not
\* overlap, and every other occurrence overlaps one of them that starts earlier.
Replaced(s, old) ==
  LET occ == {j \in 1..Len(s) : OccursAt(s, old, j)}
  IN  CHOOSE M \in SUBSET occ :
        /\ \A m, n \in M : m < n => m + Len(old) <= n
        /\ \A j \in occ \ M : \E m \in M : m < j /\ j < m + Len(old)

RECURSIVE Concat(_)
Concat(ss) == IF Len(ss) = 0 THEN <<>> ELSE Head(ss) \o Concat(Tail(ss))

\* s with new written in place of each replaced occurrence of old.
WithReplaced(s, old, new) ==
  LET M == Replaced(s, old)
  IN  Concat([j \in 1..Len(s) |->
                IF j \in M THEN new
                ELSE IF \E m \in M : m < j /\ j < m + Len(old) THEN <<>>
                ELSE <<s[j]>>])

RemapEnded == pc \in {"l134", "l138"} /\ ri > Len(jsonArray)
StrRecords == {i \in 1..Len(input) : input[i].source.src_kind = "str"}

\* C11 (as claimed): in every record of a remapped batch whose searchSourceJSON
\* is a string, that string is the original with every occurrence of the old
\* id replaced by the new id, and no occurrence of the old id remains when the
\* new id does not contain the old id.
C11_NoOldRemains ==
  RemapEnded /\ remapped # {} =>
    \A i \in StrRecords :
      /\ jsonArray[i].source.ssj = WithReplaced(input[i].source.ssj, oldidx, newidx)
      /\ ~Contains(newidx, oldidx) => ~Contains(jsonArray[i].source.ssj, oldidx)

\* C11 (amended): in every record of a remapped batch whose searchSourceJSON
\* is a string, that string is the original with every occurrence of the old
\* id, scanned left to right without overlap, replaced by the new id; no
\* occurrence of the old id remains when the new id does not contain it and
\* the old id is a single character.
C11_EveryOccurrenceReplaced ==
  RemapEnded /\ remapped # {} =>
    /\ remapped = 1..Len(input)
    /\ \A i \in StrRecords :
         /\ jsonArray[i].source.ssj = WithReplaced(input[i].source.ssj, oldidx, newidx)
         /\ (Len(oldidx) = 1 /\ ~Contains(newidx, oldidx)) =>
              ~Contains(jsonArray[i].source.ssj, oldidx)

C11_Witness ==
  /\ RemapEnded
  /\ remapped = {1, 2}
  /\ StrRecords = {1, 2}
  /\ OldIndexOf(input[1]).found
  /\ ~OldIndexOf(input[2]).found
  /\ Cardinality(Replaced(input[1].source.ssj, oldidx)) = 2
  /\ jsonArray[1] # input[1]
  /\ jsonArray[2] # input[2]
  /\ ~Contains(jsonArray[2].source.ssj, oldidx)

\* C12: replace_id leaves the type, the id and the rest of _source of every
\* record as they were read, and a record whose searchSourceJSON is absent or
\* is no string is left exactly as it was read, also after it has been passed
\* through replace_id.
C12_OnlySearchSourceChanges ==
  /\ Len(jsonArray) = Len(input)
  /\ \A i \in 1..Len(input) :
       /\ jsonArray[i].type = input[i].type
       /\ jsonArray[i].id = input[i].id
       /\ jsonArray[i].source.title = input[i].source.title
       /\ jsonArray[i].source.src_kind = input[i].source.src_kind
       /\ (i \notin remapped \/ i \notin StrRecords) => jsonArray[i] = input[i]

C12_Witness ==
  /\ RemapEnded
  /\ remapped = {1, 2}
  /\ jsonArray[1].source.ssj # input[1].source.ssj
  /\ input[2].source.src_kind = "absent"
  /\ jsonArray[2] = input[2]

\* A request goes from queued (submitted) to running to one outcome, and stays.
RequestStep(a, b) ==
  \/ a = b
  \/ a = "queued" /\ b = "running"
  \/ a = "running" /\ b \in PostOutcomes

\* C13: in every step, failures included, the requests made so far stay in
\* the list with their record and path, each moves only forward (queued,
\* running, then ok, bad or exc for good), and no record has more than one
\* request.
C13_NoRetry ==
  [][ /\ Len(futures') >= Len(futures)
      /\ \A f \in DOMAIN futures :
           /\ futures'[f].rec = futures[f].rec
           /\ futures'[f].url = futures[f].url
           /\ RequestStep(futures[f].st, futures'[f].st)
      /\ \A i \in 1..Len(jsonArray) :
           Cardinality({f \in DOMAIN futures' : futures'[f].rec = i}) <= 1 ]_vars

C13_Witness ==
  /\ pc = "exited"
  /\ Len(futures) = 2
  /\ futures[1].st = "bad"
  /\ futures[2].st = "exc"

\* C14: after a settings query that failed (network error, error status or
\* missing field) newidx is empty, main has not raised and is on its way to
\* the upload, and main never ends after such a query without having called
\* the upload.
C14_SettingsFailureIsEmpty ==
  /\ settings = "failed" => newidx = EmptyStr
  /\ (settings # "none" /\ upload = "notcalled") =>
       (mainResult = "running" /\ pc \in {"l131", "l133", "l134", "l138"})
  /\ (settings = "failed" /\ pc \in {"end", "exited"}) => upload # "notcalled"

C14_Witness ==
  /\ settings = "failed"
  /\ newidx = EmptyStr
  /\ pc = "exited"
  /\ upload = "returned"
  /\ Len(futures) >= 1

\* Every eligible record has a request that a thread has taken up.
AllAttempted ==
  LoopEnded /\ \A i \in Eligible : \E f \in RequestsFor(i) : futures[f].st # "queued"

\* C15: whatever the size of the pool, smaller than the number of eligible
\* records included, once the upload has been called it eventually ends, every
\* eligible record is eventually attempted, and the process eventually exits
\* with every request answered or failed.
C15_PoolStarvesNone ==
  /\ (upload = "running") ~> UploadEnded
  /\ (upload = "running") ~> AllAttempted
  /\ (upload = "running") ~> (pc = "exited" /\ InFlight = {} /\ AllAttempted)

C15_Witness ==
  /\ poolSize < Cardinality(Eligible)
  /\ pc = "exited"
  /\ upload = "returned"
  /\ Len(futures) = 2
  /\ AllAttempted

\* C16: when get_old_default_index has returned, its result is the index
\* value of the first record of a recognized type whose searchSourceJSON
\* parses and has an index member (empty if there is none): a record of an
\* unrecognized type does not determine it.
C16_FirstEligible ==
  pc = "l133" =>
    LET yielding == {i \in Yielding : input[i].type \in EligibleTypes}
    IN  IF yielding = {} THEN oldidx = EmptyStr
        ELSE LET first == CHOOSE i \in yielding : \A j \in yielding : i <= j
             IN  oldidx = OldIndexOf(input[first]).value

Waiting == wait /\ pc \in {"l126", "wait"}
NotReadySoFar == \A i \in DOMAIN statuses : statuses[i] \in {"connerr", "yellow"}

GreenObserved == statuses # <<>> /\ statuses[Len(statuses)] = "green"
Sent == {f \in DOMAIN futures : futures[f].body # <<>>}

\* C18: with waiting enabled, the settings are queried and requests are
\* created only after the probe's last poll reported green; with remapping
\* applied, requests are created only after every record of the batch went
\* through replace_id, so every body sent is the rewritten record's source
\* (and, without remapping, the source as read from the input).
C18_PhasesInSequence ==
  /\ wait /\ (settings # "none" \/ futures # <<>>) => GreenObserved
  /\ remapped # {} /\ futures # <<>> => remapped = 1..Len(jsonArray)
  /\ \A f \in Sent :
       futures[f].body[1].attributes =
         IF remapped # {}
           THEN replace_id(input[futures[f].data], oldidx, newidx).source
           ELSE input[futures[f].data].source

C18_Witness ==
  /\ wait
  /\ settings = "value"
  /\ remapped = {1, 2}
  /\ Cardinality(Sent) = 2
  /\ \E f \in Sent : futures[f].body[1].attributes # input[futures[f].data].source

KeyOf(i) == <<jsonArray[i].type, jsonArray[i].id>>
DistinctKeys == \A i, j \in Eligible : i # j => KeyOf(i) # KeyOf(j)
Orders ==
  {o \in [DOMAIN futures -> DOMAIN futures] : \A f, g \in DOMAIN futures : o[f] = o[g] => f = g}

\* The target after the requests of the batch were answered with success once
\* more, in the order o, from position n on.
RECURSIVE SecondRun(_, _, _)
SecondRun(objects, o, n) ==
  IF n > Len(futures) THEN objects
  ELSE SecondRun(Upsert(objects, futures[o[n]]), o, n + 1)

\* C19: when the program has ended with every request answered with success,
\* in whatever order the requests were executed and completed, the target
\* holds exactly the keys of the eligible records, each key with the source of
\* a record of that key: its own record's source when the keys are distinct,
\* one of the duplicates' sources otherwise; and with distinct keys sending
\* the same requests again, in any order, leaves the target as it is.
C19_OrderIndependent ==
  pc = "exited" /\ upload = "returned" =>
    /\ DOMAIN store = {KeyOf(i) : i \in Eligible}
    /\ \A i \in Eligible :
         store[KeyOf(i)] \in {jsonArray[j].source : j \in {e \in Eligible : KeyOf(e) = KeyOf(i)}}
    /\ DistinctKeys =>
         /\ \A i \in Eligible : store[KeyOf(i)] = jsonArray[i].source
         /\ \A o \in Orders : SecondRun(store, o, 1) = store

C19_Witness ==
  /\ pc = "exited"
  /\ upload = "returned"
  /\ poolSize = 2
  /\ Len(futures) = 2
  /\ DistinctKeys
  /\ store[KeyOf(1)] # store[KeyOf(2)]

\* With two records of the same key the program ends with either source held.
C19_WitnessDuplicates ==
  /\ pc = "exited"
  /\ upload = "returned"
  /\ Len(futures) = 2
  /\ ~DistinctKeys
  /\ jsonArray[1].source # jsonArray[2].source
  /\ store[KeyOf(1)] = jsonArray[1].source

====
